---- MODULE Spec2Model ----
(***************************************************************************)
(* Model of A1/generator.py: the birder/watcher simulation.                *)
(*                                                                         *)
(* A string is a sequence of one-character strings, so that ' '.join and   *)
(* str.split(' ') are real conversions.  The process-wide random generator *)
(* is a seeded deterministic generator: a state and a step function.       *)
(***************************************************************************)
EXTENDS Integers, Sequences, FiniteSets, TLC

VARIABLES
    args,          \* the three command-line tokens handed to main
    seed,          \* the value given to random.seed for this run
    rng,           \* state of the process-wide random generator
    draws,         \* number of draws made from the random generator (history)
    pc,            \* position of the run
    caller,        \* who called the watcher: "main" or "shared"
    namespace,     \* parse_args result
    err,           \* name of the argument parse_args rejected, "" if none
    bird,          \* the target label
    out,           \* lines printed to standard output
    day_iterator,  \* the birder's return value: a list or a generator
    day,           \* the watcher's loop variable: <<>> or <<record>>
    yielded,       \* value returned by next() and not yet bound to `day`
    count,         \* watcher_daily's running count
    birds,         \* watcher_global's list of matches
    found,         \* last result of find_bird_in_day
    result,        \* the watcher's return value
    made,          \* number of calls of make_birds_for_day (history)
    finds,         \* number of calls of find_bird_in_day (history)
    pulls,         \* number of next() calls that returned a record (history)
    requests,      \* number of next() calls, the exhausted one included (history)
    log,           \* element lists of the days generated, in order (history)
    got,           \* day numbers delivered by the iterator, in order (history)
    watcher,       \* the watcher function being run
    entered,       \* number of days already delivered when the watcher was entered (history)
    consumers,     \* per finished consumer of a shared producer: what it saw (history)
    prev           \* summary of the previous completed run

vars == <<args, seed, rng, draws, pc, caller, namespace, err, bird, out,
          day_iterator, day, yielded, count, birds, found, result, made,
          finds, pulls, requests, log, got, watcher, entered, consumers, prev>>

----------------------------------------------------------------------------
(* Bounds of the model *)

\* largest day count tried on the command line
MaxDays == 3
\* day lengths: random.randint(100, 1000) scaled down to MinBirds..MaxBirds
MinBirds == 1
MaxBirds == 3
\* seeds 0..MaxSeed are tried besides the program's own seed
MaxSeed == 2
\* number of states of the model's random generator
RngM == 31
\* consumers run one after the other on one shared producer
MaxConsumers == 2

\* the seed set by the script
Seed == 420

----------------------------------------------------------------------------
(* Strings *)

Space == " "

Tit == <<"t", "i", "t">>
Titmouse == <<"t", "i", "t", "m", "o", "u", "s", "e">>
BlueTit == <<"b", "l", "u", "e", "_", "t", "i", "t">>
Bushtit == <<"b", "u", "s", "h", "t", "i", "t">>
Ern == <<"e", "r", "n">>
Skua == <<"s", "k", "u", "a">>
\* not a catalog label: differs from 'tit' in case only
CapTit == <<"T", "i", "t">>

\* a fraction of _BIRDS, keeping labels that contain one another
_BIRDS == <<Ern, Titmouse, Tit, Skua, BlueTit, Bushtit>>

Labels == {_BIRDS[i] : i \in 1..Len(_BIRDS)}

RECURSIVE Join(_, _)
\* sep.join(parts)
Join(parts, sep) ==
    IF parts = <<>> THEN <<>>
    ELSE IF Len(parts) = 1 THEN parts[1]
    ELSE parts[1] \o <<sep>> \o Join(Tail(parts), sep)

RECURSIVE SplitAcc(_, _, _, _)
SplitAcc(s, sep, cur, acc) ==
    IF s = <<>> THEN Append(acc, cur)
    ELSE IF Head(s) = sep THEN SplitAcc(Tail(s), sep, <<>>, Append(acc, cur))
    ELSE SplitAcc(Tail(s), sep, Append(cur, Head(s)), acc)

\* s.split(sep): every separator splits, empty pieces are kept
Split(s, sep) == SplitAcc(s, sep, <<>>, <<>>)

\* b occurs in x as a substring
IsInfix(b, x) ==
    \E i \in 0..(Len(x) - Len(b)) : SubSeq(x, i + 1, i + Len(b)) = b

RECURSIVE Filter(_, _)
\* [x for x in xs if x = b]
Filter(xs, b) ==
    IF xs = <<>> THEN <<>>
    ELSE IF Head(xs) = b THEN <<Head(xs)>> \o Filter(Tail(xs), b)
    ELSE Filter(Tail(xs), b)

RECURSIVE FilterInfix(_, _)
FilterInfix(xs, b) ==
    IF xs = <<>> THEN <<>>
    ELSE IF IsInfix(b, Head(xs)) THEN <<Head(xs)>> \o FilterInfix(Tail(xs), b)
    ELSE FilterInfix(Tail(xs), b)

\* a matcher that takes every element containing the target
find_bird_in_day_infix(b, d) == FilterInfix(Split(d, Space), b)

find_bird_in_day(b, d) == Filter(Split(d, Space), b)

----------------------------------------------------------------------------
(* The random generator *)

\* random.seed(s)
SeedState(s) == s % RngM

RngStep(s) == (3 * s + 7) % RngM

\* one draw below n: the value and the generator's next state
randbelow(s, n) == [val |-> RngStep(s) % n, rng |-> RngStep(s)]

\* random.choice(seq)
choice(s, seq) ==
    [val |-> seq[randbelow(s, Len(seq)).val + 1], rng |-> randbelow(s, Len(seq)).rng]

\* random.randint(a, b)
randint(s, a, b) ==
    [val |-> a + randbelow(s, b - a + 1).val, rng |-> randbelow(s, b - a + 1).rng]

RECURSIVE Choices(_, _)
\* n successive random.choice(_BIRDS)
Choices(s, n) ==
    IF n <= 0 THEN [elems |-> <<>>, rng |-> s]
    ELSE LET c == choice(s, _BIRDS)
             rest == Choices(c.rng, n - 1)
         IN [elems |-> <<c.val>> \o rest.elems, rng |-> rest.rng]

\* the length is drawn first, then the birds; the day is their join
make_birds_for_day(s) ==
    LET n == randint(s, MinBirds, MaxBirds)
        cs == Choices(n.rng, n.val)
    IN [text |-> Join(cs.elems, Space), elems |-> cs.elems,
        rng |-> cs.rng, draws |-> 1 + n.val]

----------------------------------------------------------------------------
(* Command line *)

Digits == <<"0", "1", "2", "3", "4", "5", "6", "7", "8", "9">>

DigitVal(c) == CHOOSE d \in 0..9 : Digits[d + 1] = c

RECURSIVE ToDecimal(_)
ToDecimal(n) ==
    IF n < 10 THEN <<Digits[n + 1]>>
    ELSE ToDecimal(n \div 10) \o <<Digits[(n % 10) + 1]>>

\* str(n)
IntToken(n) == IF n < 0 THEN <<"-">> \o ToDecimal(0 - n) ELSE ToDecimal(n)

RECURSIVE DecimalValue(_)
DecimalValue(ds) ==
    IF ds = <<>> THEN 0
    ELSE 10 * DecimalValue(SubSeq(ds, 1, Len(ds) - 1)) + DigitVal(ds[Len(ds)])

\* a conversion that reads anything it cannot parse as 0
ParseIntLenient(tok) ==
    LET signed == tok # <<>> /\ Head(tok) \in {"+", "-"}
        body == IF signed THEN Tail(tok) ELSE tok
        ok == body # <<>> /\ \A i \in 1..Len(body) : \E d \in 1..10 : Digits[d] = body[i]
    IN [ok |-> TRUE,
        val |-> IF ~ok THEN 0
                ELSE IF signed /\ Head(tok) = "-" THEN 0 - DecimalValue(body)
                ELSE DecimalValue(body)]

\* type=int: int(tok), an optional sign followed by decimal digits
ParseInt(tok) ==
    LET signed == tok # <<>> /\ Head(tok) \in {"+", "-"}
        body == IF signed THEN Tail(tok) ELSE tok
        ok == body # <<>> /\ \A i \in 1..Len(body) : \E d \in 1..10 : Digits[d] = body[i]
    IN [ok |-> ok,
        val |-> IF ~ok THEN 0
                ELSE IF signed /\ Head(tok) = "-" THEN 0 - DecimalValue(body)
                ELSE DecimalValue(body)]

BirderChoices == {"list", "generator"}
WatcherChoices == {"globally", "daily"}

\* tokens tried for each argument
BirderTokens == BirderChoices \cup {"array"}
WatcherTokens == WatcherChoices \cup {"weekly"}
NegativeDayTokens == {IntToken(0 - 1)}
GoodDayTokens == {IntToken(n) : n \in 0..MaxDays}
BadDayTokens == {<<"x">>, <<"1", ".", "5">>}
DayTokens == GoodDayTokens \cup NegativeDayTokens \cup BadDayTokens

Seeds == {Seed} \cup 0..MaxSeed

ArgSets == [BIRDER : BirderTokens, WATCHER : WatcherTokens, DAYS : DayTokens]

----------------------------------------------------------------------------
(* Birders and the iterator protocol *)

\* number of iterations of range(n), counting n itself
range_len_inclusive(n) == IF n >= 0 THEN n + 1 ELSE 0

\* number of iterations of range(n)
range_len(n) == IF n > 0 THEN n ELSE 0

RECURSIVE MakeAll(_, _, _)
\* days k+1 .. n made one after the other
MakeAll(s, k, n) ==
    IF k >= n THEN [items |-> <<>>, elems |-> <<>>, rng |-> s, draws |-> 0]
    ELSE LET d == make_birds_for_day(s)
             rest == MakeAll(d.rng, k + 1, n)
         IN [items |-> <<[no |-> k + 1, text |-> d.text]>> \o rest.items,
             elems |-> <<d.elems>> \o rest.elems,
             rng |-> rest.rng, draws |-> d.draws + rest.draws]

Materialized(days, s) ==
    LET m == MakeAll(s, 0, range_len(days))
    IN [obj |-> [kind |-> "list", items |-> m.items, pos |-> 0, days |-> days],
        rng |-> m.rng, draws |-> m.draws, elems |-> m.elems]

Suspended(days, s) ==
    [obj |-> [kind |-> "generator", items |-> <<>>, pos |-> 0, days |-> days],
     rng |-> s, draws |-> 0, elems |-> <<>>]

\* a producer that makes every day when it is created
birder_generator_eager(days, s) == Materialized(days, s)

\* the generator object: nothing runs until the first next()
birder_generator(days, s) == Suspended(days, s)

\* a list birder that hands out days one at a time
birder_list_lazy(days, s) == Suspended(days, s)

\* a list birder that draws once more before making the days
birder_list_extra_draw(days, s) ==
    LET m == Materialized(days, RngStep(s))
    IN [m EXCEPT !.draws = m.draws + 1]

\* the list comprehension: all days made, in order, before it returns
birder_list(days, s) == Materialized(days, s)

\* an iter() that rewinds whatever it is given
iter_rewind(obj) == [obj EXCEPT !.pos = 0]

\* iter(obj): a fresh iterator over a list, the generator itself otherwise
iter(obj) == IF obj.kind = "list" THEN [obj EXCEPT !.pos = 0] ELSE obj

\* next(obj): a record, or exhaustion (recs empty)
next(obj, s) ==
    IF obj.kind = "list"
    THEN IF obj.pos < Len(obj.items)
         THEN [recs |-> <<obj.items[obj.pos + 1]>>,
               obj |-> [obj EXCEPT !.pos = obj.pos + 1],
               rng |-> s, draws |-> 0, elems |-> <<>>]
         ELSE [recs |-> <<>>, obj |-> obj, rng |-> s, draws |-> 0, elems |-> <<>>]
    ELSE IF obj.pos < range_len(obj.days)
         THEN LET d == make_birds_for_day(s)
              IN [recs |-> <<[no |-> obj.pos + 1, text |-> d.text]>>,
                  obj |-> [obj EXCEPT !.pos = obj.pos + 1],
                  rng |-> d.rng, draws |-> d.draws, elems |-> <<d.elems>>]
         ELSE [recs |-> <<>>, obj |-> obj, rng |-> s, draws |-> 0, elems |-> <<>>]

\* a global watcher that stores each day's matches as one item
watcher_global_append(bs, f) == Append(bs, f)

\* birds.extend(find_bird_in_day(bird, day))
watcher_global_extend(bs, f) == bs \o f

\* count += len(find_bird_in_day(bird, day))
watcher_daily_add(c, f) == c + Len(f)

----------------------------------------------------------------------------
(* State of a run *)

NoNamespace == [BIRDER |-> "", WATCHER |-> "", DAYS |-> 0]

NoIterator == [kind |-> "none", items |-> <<>>, pos |-> 0, days |-> 0]

NoRun ==
    [valid |-> FALSE, seed |-> 0, days |-> 0, birder |-> "", watcher |-> "",
     bird |-> <<>>, log |-> <<>>, total |-> 0]

\* a printed line
Line(who, what, mode, n, b) ==
    [who |-> who, what |-> what, mode |-> mode, n |-> n, bird |-> b]

\* what a finished run leaves behind for comparison with the next one
Summary ==
    [valid |-> TRUE, seed |-> seed, days |-> namespace.DAYS,
     birder |-> namespace.BIRDER, watcher |-> namespace.WATCHER,
     bird |-> bird, log |-> log, total |-> result]

\* Day Records referenced at this instant: the list or generator's stored
\* days, the loop variable, and the value next() has just returned
Live == Len(day_iterator.items) + Len(day) + Len(yielded)

\* a process starts: random.seed, then main(args) with nothing done yet
Launch(a, s, p) ==
    /\ args' = a
    /\ seed' = s
    /\ rng' = SeedState(s)
    /\ prev' = p
    /\ pc' = "start"
    /\ caller' = "main"
    /\ draws' = 0
    /\ namespace' = NoNamespace
    /\ err' = ""
    /\ bird' = <<>>
    /\ out' = <<>>
    /\ day_iterator' = NoIterator
    /\ day' = <<>>
    /\ yielded' = <<>>
    /\ count' = 0
    /\ birds' = <<>>
    /\ found' = <<>>
    /\ result' = 0
    /\ made' = 0
    /\ finds' = 0
    /\ pulls' = 0
    /\ requests' = 0
    /\ log' = <<>>
    /\ got' = <<>>
    /\ watcher' = ""
    /\ entered' = 0
    /\ consumers' = <<>>

Init ==
    /\ args \in ArgSets
    /\ seed \in Seeds
    /\ rng = SeedState(seed)
    /\ prev = NoRun
    /\ pc = "start"
    /\ caller = "main"
    /\ draws = 0
    /\ namespace = NoNamespace
    /\ err = ""
    /\ bird = <<>>
    /\ out = <<>>
    /\ day_iterator = NoIterator
    /\ day = <<>>
    /\ yielded = <<>>
    /\ count = 0
    /\ birds = <<>>
    /\ found = <<>>
    /\ result = 0
    /\ made = 0
    /\ finds = 0
    /\ pulls = 0
    /\ requests = 0
    /\ log = <<>>
    /\ got = <<>>
    /\ watcher = ""
    /\ entered = 0
    /\ consumers = <<>>

----------------------------------------------------------------------------
(* main *)

\* parser.parse_args(args): the arguments are converted and checked in
\* order, the first failure reports the argument and exits
Parse ==
    /\ pc = "start"
    /\ LET d == ParseInt(args.DAYS)
           bad == IF args.BIRDER \notin BirderChoices THEN "BIRDER"
                  ELSE IF args.WATCHER \notin WatcherChoices THEN "WATCHER"
                  ELSE IF ~d.ok THEN "DAYS"
                  ELSE ""
       IN /\ err' = bad
          /\ pc' = IF bad = "" THEN "parsed" ELSE "error"
          /\ namespace' = IF bad = ""
                          THEN [BIRDER |-> args.BIRDER, WATCHER |-> args.WATCHER,
                                DAYS |-> d.val]
                          ELSE namespace
    /\ UNCHANGED <<args, seed, rng, draws, caller, bird, out, day_iterator, day,
                   yielded, count, birds, found, result, made, finds, pulls,
                   requests, log, got, watcher, entered, consumers, prev>>

\* the target is drawn, then the two announcements are printed
Announce ==
    /\ pc = "parsed"
    /\ LET c == choice(rng, _BIRDS)
       IN /\ bird' = c.val
          /\ rng' = c.rng
          /\ draws' = draws + 1
          /\ out' = out \o
                <<Line("BIRDER", "announce", namespace.BIRDER, namespace.DAYS, <<>>),
                  Line("WATCHER", "announce", namespace.WATCHER, 0, c.val)>>
    /\ pc' = "produce"
    /\ UNCHANGED <<args, seed, caller, namespace, err, day_iterator, day, yielded,
                   count, birds, found, result, made, finds, pulls, requests,
                   log, got, watcher, entered, consumers, prev>>

\* day_iterator = birder_list(DAYS) or birder_generator(DAYS)
Produce ==
    /\ pc = "produce"
    /\ LET b == IF namespace.BIRDER = "list"
                THEN birder_list(namespace.DAYS, rng)
                ELSE birder_generator(namespace.DAYS, rng)
       IN /\ day_iterator' = b.obj
          /\ rng' = b.rng
          /\ draws' = draws + b.draws
          /\ made' = made + Len(b.elems)
          /\ log' = log \o b.elems
    /\ pc' = "consume"
    /\ UNCHANGED <<args, seed, caller, namespace, err, bird, out, day, yielded,
                   count, birds, found, result, finds, pulls, requests, got,
                   watcher, entered, consumers, prev>>

\* watcher_global or watcher_daily is entered: its locals are set and the
\* for statement takes iter(day_iterator)
Consume ==
    /\ pc = "consume"
    /\ watcher' = IF namespace.WATCHER = "globally" THEN "watcher_global"
                  ELSE "watcher_daily"
    /\ caller' = "main"
    /\ day_iterator' = iter(day_iterator)
    /\ count' = 0
    /\ birds' = <<>>
    /\ entered' = Len(got)
    /\ pc' = "loop"
    /\ UNCHANGED <<args, seed, rng, draws, namespace, err, bird, out, day,
                   yielded, found, result, made, finds, pulls, requests, log,
                   got, consumers, prev>>

\* the for statement asks for the next day; `day` still names the last one
WatcherNext ==
    /\ pc = "loop"
    /\ LET n == next(day_iterator, rng)
       IN /\ day_iterator' = n.obj
          /\ rng' = n.rng
          /\ draws' = draws + n.draws
          /\ made' = made + Len(n.elems)
          /\ log' = log \o n.elems
          /\ yielded' = n.recs
          /\ requests' = requests + 1
          /\ pulls' = pulls + Len(n.recs)
          /\ got' = IF n.recs = <<>> THEN got ELSE Append(got, n.recs[1].no)
          /\ pc' = IF n.recs = <<>> THEN "return" ELSE "body"
    /\ UNCHANGED <<args, seed, caller, namespace, err, bird, out, day, count,
                   birds, found, result, finds, watcher, entered, consumers, prev>>

\* the day is bound to `day` and scored
WatcherBody ==
    /\ pc = "body"
    /\ day' = yielded
    /\ yielded' = <<>>
    /\ LET f == find_bird_in_day(bird, yielded[1].text)
       IN /\ found' = f
          /\ count' = IF watcher = "watcher_daily"
                      THEN watcher_daily_add(count, f) ELSE count
          /\ birds' = IF watcher = "watcher_global"
                      THEN watcher_global_extend(birds, f) ELSE birds
    /\ finds' = finds + 1
    /\ pc' = "loop"
    /\ UNCHANGED <<args, seed, rng, draws, caller, namespace, err, bird, out,
                   day_iterator, result, made, pulls, requests, log, got,
                   watcher, entered, consumers, prev>>

\* return count / return len(birds); the watcher's locals go away
WatcherReturn ==
    /\ pc = "return"
    /\ LET r == IF watcher = "watcher_daily" THEN count ELSE Len(birds)
       IN /\ result' = r
          /\ consumers' = IF caller = "shared"
                          THEN Append(consumers,
                                      [watcher |-> watcher, start |-> entered,
                                       received |-> Len(got) - entered,
                                       result |-> r])
                          ELSE consumers
    /\ day' = <<>>
    /\ count' = 0
    /\ birds' = <<>>
    /\ pc' = IF caller = "main" THEN "reveal" ELSE "idle"
    /\ UNCHANGED <<args, seed, rng, draws, caller, namespace, err, bird, out,
                   day_iterator, yielded, found, made, finds, pulls, requests,
                   log, got, watcher, entered, prev>>

\* the total and the timing line are printed
Reveal ==
    /\ pc = "reveal"
    /\ out' = out \o <<Line("WATCHER", "behold", "", result, <<>>),
                       Line("BIRDER", "took", "", 0, <<>>)>>
    /\ pc' = "done"
    /\ UNCHANGED <<args, seed, rng, draws, caller, namespace, err, bird,
                   day_iterator, day, yielded, count, birds, found, result,
                   made, finds, pulls, requests, log, got, watcher, entered,
                   consumers, prev>>

\* the script is run again, with any arguments
Relaunch ==
    /\ pc \in {"done", "error"}
    /\ \E a \in ArgSets, s \in Seeds :
          Launch(a, s, IF pc = "done" THEN Summary ELSE prev)

Next ==
    \/ Parse
    \/ Announce
    \/ Produce
    \/ Consume
    \/ WatcherNext
    \/ WatcherBody
    \/ WatcherReturn
    \/ Reveal
    \/ Relaunch

Spec == Init /\ [][Next]_vars

----------------------------------------------------------------------------
(* One incremental producer handed to several consumers in turn *)

InitShared ==
    /\ args \in {a \in ArgSets : a.BIRDER = "generator" /\ a.WATCHER = "daily"
                                 /\ a.DAYS \in GoodDayTokens}
    /\ seed \in Seeds
    /\ bird \in Labels
    /\ namespace = [BIRDER |-> args.BIRDER, WATCHER |-> args.WATCHER,
                    DAYS |-> ParseInt(args.DAYS).val]
    /\ rng = birder_generator(namespace.DAYS, SeedState(seed)).rng
    /\ day_iterator = birder_generator(namespace.DAYS, SeedState(seed)).obj
    /\ prev = NoRun
    /\ pc = "idle"
    /\ caller = "shared"
    /\ draws = 0
    /\ err = ""
    /\ out = <<>>
    /\ day = <<>>
    /\ yielded = <<>>
    /\ count = 0
    /\ birds = <<>>
    /\ found = <<>>
    /\ result = 0
    /\ made = 0
    /\ finds = 0
    /\ pulls = 0
    /\ requests = 0
    /\ log = <<>>
    /\ got = <<>>
    /\ watcher = ""
    /\ entered = 0
    /\ consumers = <<>>

\* a consumer calls next(producer) once and lets the day go
SharedPull ==
    /\ pc = "idle"
    /\ requests < namespace.DAYS + MaxConsumers + 1
    /\ LET n == next(day_iterator, rng)
       IN /\ day_iterator' = n.obj
          /\ rng' = n.rng
          /\ draws' = draws + n.draws
          /\ made' = made + Len(n.elems)
          /\ log' = log \o n.elems
          /\ requests' = requests + 1
          /\ pulls' = pulls + Len(n.recs)
          /\ got' = IF n.recs = <<>> THEN got ELSE Append(got, n.recs[1].no)
    /\ UNCHANGED <<args, seed, pc, caller, namespace, err, bird, out, day,
                   yielded, count, birds, found, result, finds, watcher,
                   entered, consumers, prev>>

\* a watcher is run on the same producer
SharedWatch ==
    /\ pc = "idle"
    /\ Len(consumers) < MaxConsumers
    /\ watcher' \in {"watcher_daily", "watcher_global"}
    /\ caller' = "shared"
    /\ day_iterator' = iter(day_iterator)
    /\ count' = 0
    /\ birds' = <<>>
    /\ entered' = Len(got)
    /\ pc' = "loop"
    /\ UNCHANGED <<args, seed, rng, draws, namespace, err, bird, out, day,
                   yielded, found, result, made, finds, pulls, requests, log,
                   got, consumers, prev>>

NextShared ==
    \/ SharedPull
    \/ SharedWatch
    \/ WatcherNext
    \/ WatcherBody
    \/ WatcherReturn

SpecShared == InitShared /\ [][NextShared]_vars

----------------------------------------------------------------------------
(* find_bird_in_day on its own *)

\* every list of MinBirds..MaxBirds labels, the catalog's and one that is not
DayLists(ls) ==
    UNION {[1..n -> ls] : n \in MinBirds..MaxBirds}

\* the day is built as make_birds_for_day builds it, from any list of labels
InitFind ==
    /\ bird \in Labels
    /\ \E es \in DayLists(Labels \cup {CapTit}) :
          /\ log = <<es>>
          /\ yielded = <<[no |-> 1, text |-> Join(es, Space)]>>
    /\ args = [BIRDER |-> "generator", WATCHER |-> "daily", DAYS |-> IntToken(1)]
    /\ seed = Seed
    /\ rng = SeedState(seed)
    /\ namespace = [BIRDER |-> "generator", WATCHER |-> "daily", DAYS |-> 1]
    /\ day_iterator = NoIterator
    /\ prev = NoRun
    /\ pc = "find"
    /\ caller = "find"
    /\ draws = 0
    /\ err = ""
    /\ out = <<>>
    /\ day = <<>>
    /\ count = 0
    /\ birds = <<>>
    /\ found = <<>>
    /\ result = 0
    /\ made = 1
    /\ finds = 0
    /\ pulls = 0
    /\ requests = 0
    /\ got = <<>>
    /\ watcher = ""
    /\ entered = 0
    /\ consumers = <<>>

FindCall ==
    /\ pc = "find"
    /\ found' = find_bird_in_day(bird, yielded[1].text)
    /\ finds' = finds + 1
    /\ pc' = "found"
    /\ UNCHANGED <<args, seed, rng, draws, caller, namespace, err, bird, out,
                   day_iterator, day, yielded, count, birds, result, made,
                   pulls, requests, log, got, watcher, entered, consumers, prev>>

NextFind == FindCall

SpecFind == InitFind /\ [][NextFind]_vars

----------------------------------------------------------------------------
(* Properties *)

Consuming == {"loop", "body", "return"}

AfterProduction == {"consume", "loop", "body", "return", "reveal", "done"}

\* number of elements of one day equal to b
OccurrencesInDay(b, es) == Cardinality({i \in DOMAIN es : es[i] = b})

RECURSIVE Occurrences(_, _)
\* number of elements of all the days equal to b
Occurrences(b, ds) ==
    IF ds = <<>> THEN 0
    ELSE OccurrencesInDay(b, Head(ds)) + Occurrences(b, Tail(ds))

RECURSIVE DrawsFor(_)
\* draws that making these days takes: a length and then each bird
DrawsFor(ds) ==
    IF ds = <<>> THEN 0 ELSE 1 + Len(Head(ds)) + DrawsFor(Tail(ds))

\* C1: for a day count N >= 0 the total returned is the number of elements
\* of the N generated days equal to the target, whichever birder and watcher
\* were chosen; two runs over the same days and target return the same total.
C1_TotalIsOccurrences ==
    (pc \in {"reveal", "done"} /\ namespace.DAYS >= 0) =>
        /\ Len(log) = namespace.DAYS
        /\ result = Occurrences(bird, log)
        /\ (prev.valid /\ prev.bird = bird /\ prev.log = log) => prev.total = result

C1_Witness ==
    /\ pc = "done"
    /\ namespace.DAYS >= 2
    /\ result >= 2
    /\ result # namespace.DAYS
    /\ prev.valid /\ prev.bird = bird /\ prev.log = log
    /\ prev.birder # namespace.BIRDER
    /\ prev.watcher # namespace.WATCHER

\* C2: a run whose day count is negative fails while the arguments are
\* parsed, before the target is drawn and before any day is made; it never
\* prints a total.
C2_NegativeDaysRejected ==
    (/\ args.BIRDER \in BirderChoices
     /\ args.WATCHER \in WatcherChoices
     /\ args.DAYS \in NegativeDayTokens
     /\ caller = "main") =>
        /\ pc \in {"start", "error"}
        /\ draws = 0
        /\ out = <<>>

\* C3: a run with an unknown production mode, an unknown consumption mode or
\* a day count that is not an integer is rejected by argument parsing: the
\* random generator has not been drawn from and nothing has been printed.
C3_InvalidArgsRejected ==
    (/\ caller = "main"
     /\ \/ args.BIRDER \notin BirderChoices
        \/ args.WATCHER \notin WatcherChoices
        \/ args.DAYS \in BadDayTokens) =>
        /\ pc \in {"start", "error"}
        /\ pc = "error" => err \in {"BIRDER", "WATCHER", "DAYS"}
        /\ draws = 0
        /\ rng = SeedState(seed)
        /\ bird = <<>>
        /\ made = 0
        /\ out = <<>>

C3_Witness ==
    /\ pc = "error"
    /\ err = "DAYS"
    /\ args.DAYS \in BadDayTokens
    /\ draws = 0

\* C4: for day count 0 the total is 0 under each pairing and
\* make_birds_for_day is never called.
C4_ZeroDays ==
    (caller = "main" /\ pc \notin {"start", "error"} /\ namespace.DAYS = 0) =>
        /\ made = 0
        /\ log = <<>>
        /\ pulls = 0
        /\ Live = 0
        /\ pc \in {"reveal", "done"} => result = 0
        /\ pc = "done" => out[3].n = 0

C4_Witness ==
    /\ pc = "done"
    /\ namespace.DAYS = 0
    /\ result = 0
    /\ requests = 1
    /\ prev.valid /\ prev.days = 0 /\ prev.total = 0
    /\ prev.birder # namespace.BIRDER
    /\ prev.watcher # namespace.WATCHER

\* C5: birder_generator(N) is forward-only and finite: the days come out
\* as day 1, 2, ... and none twice, whoever pulls; a consumer entered after k
\* days were delivered receives exactly the remaining N - k; exhaustion is
\* signalled only once all N were delivered, and a watcher run on an
\* exhausted producer returns 0.
C5_ForwardOnly ==
    caller = "shared" =>
        /\ \A i \in 1..Len(got) : got[i] = i
        /\ Len(got) <= namespace.DAYS
        /\ pulls = Len(got)
        /\ made = pulls
        /\ requests > pulls => pulls = namespace.DAYS
        /\ \A c \in 1..Len(consumers) :
              /\ consumers[c].received = namespace.DAYS - consumers[c].start
              /\ consumers[c].start = namespace.DAYS => consumers[c].result = 0

C5_Witness ==
    /\ caller = "shared"
    /\ pc = "idle"
    /\ namespace.DAYS = 3
    /\ Len(consumers) = 2
    /\ consumers[1].start = 1
    /\ consumers[1].received = 2
    /\ consumers[1].result > 0
    /\ consumers[2].start = 3
    /\ consumers[2].received = 0
    /\ consumers[2].result = 0

\* C6: with the generator birder no day is made before it is asked for:
\* at every point the number of days made is the number of pulls that
\* returned a day, none is made between creating the producer and the first
\* pull, and the one pull that returns nothing is the one after the last day.
C6_LazyProduction ==
    (caller = "main" /\ namespace.BIRDER = "generator") =>
        /\ made = pulls
        /\ Len(log) = pulls
        /\ pc \in {"produce", "consume"} => made = 0
        /\ requests - pulls \in {0, 1}
        /\ requests > pulls => pulls = namespace.DAYS \/ namespace.DAYS < 0

C6_Witness ==
    /\ caller = "main"
    /\ namespace.BIRDER = "generator"
    /\ namespace.DAYS = 3
    /\ pc = "body"
    /\ made = 2
    /\ pulls = 2

C8_BatchBeforeConsumption ==
    (caller = "main" /\ namespace.BIRDER = "list" /\ pc \in AfterProduction) =>
        /\ made = (IF namespace.DAYS > 0 THEN namespace.DAYS ELSE 0)
        /\ Len(day_iterator.items) = made
        /\ \A i \in 1..Len(day_iterator.items) : day_iterator.items[i].no = i
        /\ finds <= made

C8_Witness ==
    /\ caller = "main"
    /\ namespace.BIRDER = "list"
    /\ namespace.DAYS = 3
    /\ pc = "body"
    /\ finds = 0
    /\ made = 3

\* C9: find_bird_in_day(bird, day) returns one entry for each element of
\* the day equal to bird and nothing else; elements that contain the target
\* or differ from it in case are not returned.
C9_ExactMatch ==
    (caller = "find" /\ pc = "found") =>
        /\ \A i \in 1..Len(found) : found[i] = bird
        /\ Len(found) = OccurrencesInDay(bird, log[1])

C9_Witness ==
    /\ caller = "find"
    /\ pc = "found"
    /\ bird = Tit
    /\ found = <<Tit>>
    /\ \E i \in DOMAIN log[1] : log[1][i] = Titmouse
    /\ \E i \in DOMAIN log[1] : log[1][i] = CapTit

\* C10: two runs from the same seed with the same day count draw the same
\* target and make the same days, whatever their modes, and print the same
\* total; the draws of a run are the target's and the days', no more.
C10_Deterministic ==
    (caller = "main" /\ pc \in {"reveal", "done"}) =>
        /\ draws = 1 + DrawsFor(log)
        /\ (prev.valid /\ prev.seed = seed /\ prev.days = namespace.DAYS) =>
              /\ prev.bird = bird
              /\ prev.log = log
              /\ prev.total = result

C10_Witness ==
    /\ caller = "main"
    /\ pc = "done"
    /\ seed = Seed
    /\ namespace.DAYS = 3
    /\ prev.valid /\ prev.seed = seed /\ prev.days = namespace.DAYS
    /\ prev.birder # namespace.BIRDER
    /\ prev.watcher # namespace.WATCHER
    /\ prev.log = log
    /\ out[3].n = prev.total

====
